---- MODULE Spec2Model ----
(***************************************************************************)
(* Relay core of the poly cross-chain network:                             *)
(*   - BlockStore (ledgerstore): batched block/transaction persistence     *)
(*     with an optional block/transaction cache,                           *)
(*   - ONTHandler header synchronisation (SyncGenesisHeader,               *)
(*     SyncBlockHeader),                                                   *)
(*   - the cross chain manager entrance (ImportExTransfer, Vote).          *)
(* Each subsystem has its own specification over the shared variables.     *)
(***************************************************************************)
EXTENDS Integers, Sequences, FiniteSets, TLC

VARIABLES
    \* ---- BlockStore ----
    enableCache,   \* BlockStore.enableCache
    store,         \* LevelDBStore: committed key -> value
    batch,         \* LevelDBStore.batch: [open, ops]
    blockCache,    \* BlockCache.blockCache: block hash -> block
    txCache,       \* BlockCache.transactionCache: tx hash -> [Tx, Height]
    bsLast,        \* history: the last BlockStore operation and its outcome
    bsStaged,      \* history: blocks given to SaveBlock since the last NewBatch
    bsSaved,       \* history: every block ever given to SaveBlock
    bsTxAlone,     \* history: tx hashes given to SaveTransaction directly
    bsPre,         \* history: the read view when the current batch was started
    bsOps,         \* number of BlockStore operations performed
    \* ---- header sync (ONTHandler) ----
    hsHeaders,     \* stored headers: <<chain, height>> -> header
    hsPeers,       \* consensus peer history: <<chain, height>> -> peer set
    hsApplied,     \* history: slots whose stored header had its peer update applied
    hsSynced,      \* history: chains on which SyncGenesisHeader has succeeded
    hsAccepted,    \* history: slots of headers SyncBlockHeader has accepted
    hsLast,        \* history: the last header sync call and its outcome
                   \* (owner: the call passed the genesis ownership check)
    hsOps,         \* number of header sync calls performed
    hsProc,        \* SyncBlockHeader calls in progress: caller -> [pc, header]
    hsPuts,        \* history: slot -> PutBlockHeader calls made by SyncBlockHeader
    hsRotations,   \* history: slot -> peer-set rotations appended by SyncBlockHeader
    hsCalls,       \* number of SyncBlockHeader calls begun step by step
    \* ---- cross chain manager entrance ----
    ccRegistry,    \* side chain registry: the registered chain ids
    ccApplied,     \* outgoing transactions: <<chain, proof>> -> times applied
    ccVotes,       \* vote records: proof -> voters counted
    ccCrossed,     \* history: proof -> times Vote reported the threshold crossed
    ccVoteTx,      \* history: proof -> MakeTransaction calls made by Vote
    ccLast,        \* history: the last entrance call and its outcome (crossed,
                   \* voteErr: what the handler's Vote returned)
    ccOps          \* number of entrance calls performed

bsVars == <<enableCache, store, batch, blockCache, txCache,
            bsLast, bsStaged, bsSaved, bsTxAlone, bsPre, bsOps>>

hsVars == <<hsHeaders, hsPeers, hsApplied, hsSynced, hsAccepted, hsLast, hsOps>>

hpVars == <<hsProc, hsPuts, hsRotations, hsCalls>>

ccVars == <<ccRegistry, ccApplied, ccVotes, ccCrossed, ccVoteTx, ccLast, ccOps>>

vars == <<bsVars, hsVars, hpVars, ccVars>>

(***************************************************************************)
(* Bounds                                                                  *)
(***************************************************************************)
MaxTx == 2
MaxHeight == 1
MaxStoreOps == 3
MaxHsHeight == 1
MaxSyncOps == 3
MaxSyncCalls == 2
MaxProofs == 1
MaxCcOps == 3
MaxVotes == 3
MaxTargetOps == 2

(***************************************************************************)
(* Program constants                                                       *)
(***************************************************************************)
\* scom.DataEntryPrefix values
DATA_BLOCK == 0
DATA_HEADER == 1
DATA_TRANSACTION == 2
SYS_CURRENT_BLOCK == 16
SYS_VERSION == 17
\* BlockCache capacities (BLOCK_CAHE_SIZE, TRANSACTION_CACHE_SIZE), scaled down
BlockCacheSize == 1
TxCacheSize == 2
\* utils chain ids
BTC_CHAIN_ID == 1
ETH_CHAIN_ID == 2
ONT_CHAIN_ID == 3
NEO_CHAIN_ID == 4
\* votes a proposal needs (m of the redeem script's m-of-n)
VoteThreshold == 2

(***************************************************************************)
(* Data: transactions, headers, blocks, hashes                             *)
(***************************************************************************)
Txs == {[Raw |-> <<i>>] : i \in 1..MaxTx}

\* Transaction.Hash(): a collision-free digest of the raw bytes
TxHash(tx) == tx.Raw[1]

RECURSIVE NoRepeat(_)
NoRepeat(s) ==
    IF Len(s) <= 1 THEN TRUE
    ELSE /\ \A i \in 2..Len(s) : s[i] # s[1]
         /\ NoRepeat(Tail(s))

TxLists ==
    {s \in UNION {[1..n -> Txs] : n \in 0..MaxTx} : NoRepeat(s)}

HashesOf(txs) == [i \in 1..Len(txs) |-> TxHash(txs[i])]

\* Header.TransactionsRoot: a collision-free commitment to the tx hash list
RECURSIVE MerkleRoot(_)
MerkleRoot(hs) ==
    IF hs = <<>> THEN 0
    ELSE MerkleRoot(SubSeq(hs, 1, Len(hs) - 1)) * (MaxTx + 1) + hs[Len(hs)]

Blocks ==
    {[Header |-> [Height |-> h, TransactionsRoot |-> MerkleRoot(HashesOf(l))],
      Transactions |-> l] : h \in 0..MaxHeight, l \in TxLists}

\* Block.Hash() = Header.Hash(): a collision-free digest of the header
HeaderHash(header) == header.Height + (MaxHeight + 1) * header.TransactionsRoot
BlockHash(block) == HeaderHash(block.Header)

Hashes == {BlockHash(b) : b \in Blocks} \cup {TxHash(t) : t \in Txs}

NilHeader == [Height |-> 0, TransactionsRoot |-> -1]
NilBlock == [Header |-> NilHeader, Transactions |-> <<>>]
NilTx == [Raw |-> <<>>]

(***************************************************************************)
(* Serialization                                                           *)
(***************************************************************************)
\* WriteUint32 / binary.LittleEndian.PutUint32
LE4(n) == <<n % 256, (n \div 256) % 256, (n \div 65536) % 256,
            (n \div 16777216) % 256>>

\* NextUint32 / ReadUint32 on four bytes
FromLE4(b) == b[1] + 256 * b[2] + 65536 * b[3] + 16777216 * b[4]

\* Uint256.ToArray / Serialize: the hash bytes (one cell stands for the 32)
ToArray(hash) == <<hash>>

\* Header.Serialization
HeaderBytes(header) == LE4(header.Height) \o ToArray(header.TransactionsRoot)
HeaderLen == Len(LE4(0)) + Len(ToArray(0))

(***************************************************************************)
(* Keys                                                                    *)
(***************************************************************************)
getTransactionKey(txHash) == <<DATA_TRANSACTION>> \o ToArray(txHash)
\* a header key built with the prefix of the transaction keys
MutGetHeaderKey(blockHash) == <<DATA_TRANSACTION>> \o ToArray(blockHash)

getHeaderKey(blockHash) == <<DATA_HEADER>> \o ToArray(blockHash)
getBlockHashKey(height) == <<DATA_BLOCK>> \o LE4(height)
getCurrentBlockKey == <<SYS_CURRENT_BLOCK>>
getVersionKey == <<SYS_VERSION>>

(***************************************************************************)
(* LevelDBStore: point get/put, batch put/delete, atomic batch commit      *)
(***************************************************************************)
DbPut(db, k, v) == [x \in (DOMAIN db) \cup {k} |-> IF x = k THEN v ELSE db[x]]
DbDelete(db, k) == [x \in (DOMAIN db) \ {k} |-> db[x]]

\* leveldb Write(batch): the staged operations applied in order
RECURSIVE ApplyBatch(_, _)
ApplyBatch(db, ops) ==
    IF ops = <<>> THEN db
    ELSE LET op == Head(ops) IN
         ApplyBatch(IF op.kind = "put" THEN DbPut(db, op.key, op.value)
                    ELSE DbDelete(db, op.key),
                    Tail(ops))

BatchPut(b, k, v) ==
    [b EXCEPT !.ops = Append(@, [kind |-> "put", key |-> k, value |-> v])]
BatchDelete(b, k) ==
    [b EXCEPT !.ops = Append(@, [kind |-> "del", key |-> k, value |-> <<>>])]

NoBatch == [open |-> FALSE, ops |-> <<>>]
EmptyBatch == [open |-> TRUE, ops |-> <<>>]

\* store.Get
StoreGet(db, k) ==
    IF k \in DOMAIN db THEN [err |-> "nil", value |-> db[k]]
    ELSE [err |-> "ErrNotFound", value |-> <<>>]

(***************************************************************************)
(* BlockCache: bounded; which entry a full cache drops is left open        *)
(***************************************************************************)
CacheAdd(c, k, v, cap) ==
    IF k \in DOMAIN c \/ Cardinality(DOMAIN c) < cap
    THEN {DbPut(c, k, v)}
    ELSE {DbPut(DbDelete(c, out), k, v) : out \in DOMAIN c}

EmptyMap == [x \in {} |-> <<>>]

\* the state the read operations look at
View == [enableCache |-> enableCache, store |-> store,
         blockCache |-> blockCache, txCache |-> txCache]

(***************************************************************************)
(* BlockStore: stored values                                               *)
(***************************************************************************)
\* a SaveHeader that writes the transaction hashes last to first
MutSaveHeaderValue(block) ==
    LET hs == HashesOf(block.Transactions) IN
    HeaderBytes(block.Header) \o LE4(Len(hs))
        \o [i \in 1..Len(hs) |-> hs[Len(hs) + 1 - i]]

\* SaveHeader: header, transaction count, transaction hashes
SaveHeaderValue(block) ==
    LET hs == HashesOf(block.Transactions) IN
    HeaderBytes(block.Header) \o LE4(Len(hs)) \o hs

\* putTransaction: height, raw transaction bytes
putTransactionValue(tx, height) == LE4(height) \o tx.Raw

\* SaveCurrentBlock: block hash, height
SaveCurrentBlockValue(height, blockHash) == ToArray(blockHash) \o LE4(height)

(***************************************************************************)
(* BlockStore: reads.  v is a view [enableCache, store, blockCache,        *)
(* txCache]                                                                *)
(***************************************************************************)
\* Header.Deserialization on the front of a stored value
HeaderFromBytes(value) ==
    IF Len(value) < HeaderLen
    THEN [err |-> "ErrUnexpectedEOF", header |-> NilHeader]
    ELSE [err |-> "nil",
          header |-> [Height |-> FromLE4(SubSeq(value, 1, 4)),
                      TransactionsRoot |-> value[HeaderLen]]]

loadHeaderWithTx(v, blockHash) ==
    LET got == StoreGet(v.store, getHeaderKey(blockHash))
        bad(e) == [err |-> e, header |-> NilHeader, txHashes |-> <<>>]
    IN  IF got.err # "nil" THEN bad(got.err)
        ELSE LET h == HeaderFromBytes(got.value)
                 rest == SubSeq(got.value, HeaderLen + 1, Len(got.value))
             IN  IF h.err # "nil" THEN bad(h.err)
                 ELSE IF Len(rest) < 4 THEN bad("ErrUnexpectedEOF")
                 ELSE LET txSize == FromLE4(SubSeq(rest, 1, 4))
                          hs == SubSeq(rest, 5, Len(rest))
                      IN  IF Len(hs) < txSize THEN bad("ErrUnexpectedEOF")
                          ELSE [err |-> "nil", header |-> h.header,
                                txHashes |-> SubSeq(hs, 1, txSize)]

loadHeader(v, blockHash) ==
    LET got == StoreGet(v.store, getHeaderKey(blockHash)) IN
    IF got.err # "nil" THEN [err |-> got.err, header |-> NilHeader]
    ELSE HeaderFromBytes(got.value)

loadTransaction(v, txHash) ==
    LET bad(e) == [err |-> e, tx |-> NilTx, height |-> 0] IN
    IF v.enableCache /\ txHash \in DOMAIN v.txCache
    THEN [err |-> "nil", tx |-> v.txCache[txHash].Tx,
          height |-> v.txCache[txHash].Height]
    ELSE LET got == StoreGet(v.store, getTransactionKey(txHash)) IN
         IF got.err # "nil" THEN bad(got.err)
         ELSE IF Len(got.value) < 4 THEN bad("ErrUnexpectedEOF")
         ELSE LET raw == SubSeq(got.value, 5, Len(got.value)) IN
              IF raw = <<>> THEN bad("transaction deserialize error")
              ELSE [err |-> "nil", tx |-> [Raw |-> raw],
                    height |-> FromLE4(SubSeq(got.value, 1, 4))]

GetTransaction(v, txHash) ==
    IF v.enableCache /\ txHash \in DOMAIN v.txCache
    THEN [err |-> "nil", tx |-> v.txCache[txHash].Tx,
          height |-> v.txCache[txHash].Height]
    ELSE loadTransaction(v, txHash)

GetBlock(v, blockHash) ==
    IF v.enableCache /\ blockHash \in DOMAIN v.blockCache
    THEN [err |-> "nil", block |-> v.blockCache[blockHash]]
    ELSE LET l == loadHeaderWithTx(v, blockHash) IN
         IF l.err # "nil" THEN [err |-> l.err, block |-> NilBlock]
         ELSE LET got == [i \in 1..Len(l.txHashes) |->
                              GetTransaction(v, l.txHashes[i])]
                  failed == {i \in 1..Len(got) : got[i].err # "nil"}
              IN  IF failed # {}
                  THEN [err |-> "GetTransaction error", block |-> NilBlock]
                  ELSE [err |-> "nil",
                        block |-> [Header |-> l.header,
                                   Transactions |->
                                       [i \in 1..Len(got) |-> got[i].tx]]]

GetHeader(v, blockHash) ==
    IF v.enableCache /\ blockHash \in DOMAIN v.blockCache
    THEN [err |-> "nil", header |-> v.blockCache[blockHash].Header]
    ELSE loadHeader(v, blockHash)

ContainBlock(v, blockHash) ==
    IF v.enableCache /\ blockHash \in DOMAIN v.blockCache THEN TRUE
    ELSE StoreGet(v.store, getHeaderKey(blockHash)).err = "nil"

ContainTransaction(v, txHash) ==
    IF v.enableCache /\ txHash \in DOMAIN v.txCache THEN TRUE
    ELSE StoreGet(v.store, getTransactionKey(txHash)).err = "nil"

GetCurrentBlock(v) ==
    LET got == StoreGet(v.store, getCurrentBlockKey)
        bad(e) == [err |-> e, hash |-> 0, height |-> 0]
    IN  IF got.err # "nil" THEN bad(got.err)
        ELSE IF Len(got.value) < 1 + 4 THEN bad("EOF")
        ELSE [err |-> "nil", hash |-> got.value[1],
              height |-> FromLE4(SubSeq(got.value, 2, 5))]

GetBlockHash(v, height) ==
    LET got == StoreGet(v.store, getBlockHashKey(height)) IN
    IF got.err # "nil" THEN [err |-> got.err, hash |-> 0]
    ELSE IF Len(got.value) # 1 THEN [err |-> "invalid hash", hash |-> 0]
    ELSE [err |-> "nil", hash |-> got.value[1]]

GetVersion(v) ==
    LET got == StoreGet(v.store, getVersionKey) IN
    IF got.err # "nil" THEN [err |-> got.err, version |-> 0]
    ELSE IF got.value = <<>> THEN [err |-> "EOF", version |-> 0]
    ELSE [err |-> "nil", version |-> got.value[1]]

(***************************************************************************)
(* BlockStore: operations                                                  *)
(***************************************************************************)
Heights == 0..MaxHeight
\* the hashes of the blocks that carry no transaction
TipHashes == {BlockHash(b) : b \in {x \in Blocks : x.Transactions = <<>>}}

\* the writes SaveBlock stages: SaveHeader, then SaveTransaction per tx
RECURSIVE StageTransactions(_, _, _)
StageTransactions(b, txs, height) ==
    IF txs = <<>> THEN b
    ELSE StageTransactions(
             BatchPut(b, getTransactionKey(TxHash(Head(txs))),
                      putTransactionValue(Head(txs), height)),
             Tail(txs), height)

StageBlock(b, block) ==
    StageTransactions(
        BatchPut(b, getHeaderKey(BlockHash(block)), SaveHeaderValue(block)),
        block.Transactions, block.Header.Height)

\* the caches SaveBlock's AddTransaction calls can leave
RECURSIVE CacheTransactions(_, _, _)
CacheTransactions(tc, txs, height) ==
    IF txs = <<>> THEN {tc}
    ELSE UNION {CacheTransactions(c, Tail(txs), height) :
                  c \in CacheAdd(tc, TxHash(Head(txs)),
                                 [Tx |-> Head(txs), Height |-> height],
                                 TxCacheSize)}

Last(op, err, blocks) ==
    [op |-> op, err |-> err, blocks |-> blocks, arg |-> <<>>]

BsStep == /\ bsOps < MaxStoreOps
          /\ bsOps' = bsOps + 1
          /\ enableCache' = enableCache
          /\ UNCHANGED <<hsVars, hpVars, ccVars>>

NewBatch ==
    /\ BsStep
    /\ batch' = EmptyBatch
    /\ bsStaged' = {}
    /\ bsPre' = View
    /\ bsLast' = Last("NewBatch", "nil", {})
    /\ UNCHANGED <<store, blockCache, txCache, bsSaved, bsTxAlone>>

\* BatchPut needs the batch NewBatch creates
SaveBlock(block) ==
    /\ BsStep
    /\ batch.open
    /\ IF enableCache
       THEN /\ blockCache' \in CacheAdd(blockCache, BlockHash(block), block,
                                        BlockCacheSize)
            /\ txCache' \in CacheTransactions(txCache, block.Transactions,
                                              block.Header.Height)
       ELSE UNCHANGED <<blockCache, txCache>>
    /\ batch' = StageBlock(batch, block)
    /\ bsStaged' = bsStaged \cup {block}
    /\ bsSaved' = bsSaved \cup {block}
    /\ bsLast' = Last("SaveBlock", "nil", {block})
    /\ UNCHANGED <<store, bsTxAlone, bsPre>>

\* a SaveTransaction that writes to the store at once
MutSaveTransaction(tx, height) ==
    /\ BsStep
    /\ batch.open
    /\ IF enableCache
       THEN txCache' \in CacheAdd(txCache, TxHash(tx),
                                  [Tx |-> tx, Height |-> height], TxCacheSize)
       ELSE UNCHANGED txCache
    /\ store' = DbPut(store, getTransactionKey(TxHash(tx)),
                      putTransactionValue(tx, height))
    /\ bsTxAlone' = bsTxAlone \cup {TxHash(tx)}
    /\ bsLast' = Last("SaveTransaction", "nil", {})
    /\ UNCHANGED <<batch, blockCache, bsStaged, bsSaved, bsPre>>

SaveTransaction(tx, height) ==
    /\ BsStep
    /\ batch.open
    /\ IF enableCache
       THEN txCache' \in CacheAdd(txCache, TxHash(tx),
                                  [Tx |-> tx, Height |-> height], TxCacheSize)
       ELSE UNCHANGED txCache
    /\ batch' = BatchPut(batch, getTransactionKey(TxHash(tx)),
                         putTransactionValue(tx, height))
    /\ bsTxAlone' = bsTxAlone \cup {TxHash(tx)}
    /\ bsLast' = Last("SaveTransaction", "nil", {})
    /\ UNCHANGED <<store, blockCache, bsStaged, bsSaved, bsPre>>

\* a SaveCurrentBlock that writes the tip at once, outside the batch
MutSaveCurrentBlock(height, blockHash) ==
    /\ BsStep
    /\ batch.open
    /\ store' = DbPut(store, getCurrentBlockKey,
                      SaveCurrentBlockValue(height, blockHash))
    /\ bsLast' = Last("SaveCurrentBlock", "nil", {})
    /\ UNCHANGED <<batch, blockCache, txCache, bsStaged, bsSaved, bsTxAlone,
                   bsPre>>

SaveCurrentBlock(height, blockHash) ==
    /\ BsStep
    /\ batch.open
    /\ batch' = BatchPut(batch, getCurrentBlockKey,
                         SaveCurrentBlockValue(height, blockHash))
    /\ bsLast' = Last("SaveCurrentBlock", "nil", {})
    /\ UNCHANGED <<store, blockCache, txCache, bsStaged, bsSaved, bsTxAlone,
                   bsPre>>

\* a SaveBlockHash that keeps the hash a height already has in the store
MutSaveBlockHash(height, blockHash) ==
    /\ BsStep
    /\ batch.open
    /\ batch' = IF getBlockHashKey(height) \in DOMAIN store THEN batch
                ELSE BatchPut(batch, getBlockHashKey(height),
                              ToArray(blockHash))
    /\ bsLast' = [Last("SaveBlockHash", "nil", {})
                     EXCEPT !.arg = <<height, blockHash>>]
    /\ UNCHANGED <<store, blockCache, txCache, bsStaged, bsSaved, bsTxAlone,
                   bsPre>>

SaveBlockHash(height, blockHash) ==
    /\ BsStep
    /\ batch.open
    /\ batch' = BatchPut(batch, getBlockHashKey(height), ToArray(blockHash))
    /\ bsLast' = [Last("SaveBlockHash", "nil", {})
                     EXCEPT !.arg = <<height, blockHash>>]
    /\ UNCHANGED <<store, blockCache, txCache, bsStaged, bsSaved, bsTxAlone,
                   bsPre>>

\* store.Put: written at once, outside any batch
SaveVersion(ver, ioFails) ==
    /\ BsStep
    /\ store' = IF ioFails THEN store ELSE DbPut(store, getVersionKey, <<ver>>)
    /\ bsLast' = Last("SaveVersion", IF ioFails THEN "io" ELSE "nil", {})
    /\ UNCHANGED <<batch, blockCache, txCache, bsStaged, bsSaved, bsTxAlone,
                   bsPre>>

\* BatchCommit: all staged writes or none; a failed commit keeps the batch
CommitTo(ioFails) ==
    /\ BsStep
    /\ IF ioFails
       THEN /\ UNCHANGED <<store, batch, bsStaged>>
            /\ bsLast' = Last("CommitTo", "io", bsStaged)
       ELSE /\ store' = ApplyBatch(store, batch.ops)
            /\ batch' = NoBatch
            /\ bsStaged' = {}
            /\ bsLast' = Last("CommitTo", "nil", bsStaged)
    /\ UNCHANGED <<blockCache, txCache, bsSaved, bsTxAlone, bsPre>>

\* the batch ClearAll builds: a delete for every key the iterator yields
RECURSIVE DeleteAll(_, _)
DeleteAll(b, keys) ==
    IF keys = {} THEN b
    ELSE LET k == CHOOSE x \in keys : TRUE IN
         DeleteAll(BatchDelete(b, k), keys \ {k})

\* outcome: "nil", "iter" (iter.Error) or "io" (commit failed)
ClearAll(outcome) ==
    /\ BsStep
    /\ bsPre' = View
    /\ IF outcome = "nil"
       THEN /\ store' = ApplyBatch(store, DeleteAll(EmptyBatch, DOMAIN store).ops)
            /\ batch' = NoBatch
       ELSE /\ store' = store
            /\ batch' = DeleteAll(EmptyBatch, DOMAIN store)
    /\ bsStaged' = {}
    /\ bsLast' = Last("ClearAll", outcome, {})
    /\ UNCHANGED <<blockCache, txCache, bsSaved, bsTxAlone>>

BsInit ==
    /\ enableCache \in BOOLEAN
    /\ store = EmptyMap
    /\ batch = NoBatch
    /\ blockCache = EmptyMap
    /\ txCache = EmptyMap
    /\ bsLast = Last("NewBlockStore", "nil", {})
    /\ bsStaged = {}
    /\ bsSaved = {}
    /\ bsTxAlone = {}
    /\ bsPre = [enableCache |-> enableCache, store |-> EmptyMap,
                blockCache |-> EmptyMap, txCache |-> EmptyMap]
    /\ bsOps = 0

\* a block store opened on a directory an earlier run left: the empty block
\* of height 0 committed with its hash index entry and as the current block
PriorBlock ==
    [Header |-> [Height |-> 0, TransactionsRoot |-> MerkleRoot(<<>>)],
     Transactions |-> <<>>]

PriorStore ==
    ApplyBatch(EmptyMap,
               BatchPut(BatchPut(StageBlock(EmptyBatch, PriorBlock),
                                 getBlockHashKey(0),
                                 ToArray(BlockHash(PriorBlock))),
                        getCurrentBlockKey,
                        SaveCurrentBlockValue(0, BlockHash(PriorBlock))).ops)

BsInitOpened ==
    /\ enableCache \in BOOLEAN
    /\ store = PriorStore
    /\ batch = NoBatch
    /\ blockCache = EmptyMap
    /\ txCache = EmptyMap
    /\ bsLast = Last("NewBlockStore", "nil", {})
    /\ bsStaged = {}
    /\ bsSaved = {}
    /\ bsTxAlone = {}
    /\ bsPre = [enableCache |-> enableCache, store |-> PriorStore,
                blockCache |-> EmptyMap, txCache |-> EmptyMap]
    /\ bsOps = 0

\* a block store opened on a damaged directory: the header of a block is
\* there and one or more of its transactions are not
DamagedStores ==
    {LET whole == ApplyBatch(EmptyMap, StageBlock(EmptyBatch, b).ops)
         lost == {getTransactionKey(TxHash(t)) : t \in gone}
     IN  [k \in (DOMAIN whole) \ lost |-> whole[k]] :
        b \in {x \in Blocks : x.Header.Height = 0},
        gone \in (SUBSET Txs) \ {{}}}

BsInitDamaged ==
    /\ enableCache \in BOOLEAN
    /\ store \in DamagedStores
    /\ batch = NoBatch
    /\ blockCache = EmptyMap
    /\ txCache = EmptyMap
    /\ bsLast = Last("NewBlockStore", "nil", {})
    /\ bsStaged = {}
    /\ bsSaved = {}
    /\ bsTxAlone = {}
    /\ bsPre = [enableCache |-> enableCache, store |-> store,
                blockCache |-> EmptyMap, txCache |-> EmptyMap]
    /\ bsOps = 0

BsNext ==
    \/ NewBatch
    \/ \E b \in Blocks : SaveBlock(b)
    \/ \E t \in Txs, h \in Heights : SaveTransaction(t, h)
    \/ \E h \in Heights, x \in TipHashes : SaveCurrentBlock(h, x)
    \/ \E h \in Heights, x \in TipHashes : SaveBlockHash(h, x)
    \/ \E io \in BOOLEAN : SaveVersion(1, io)
    \/ \E io \in BOOLEAN : CommitTo(io)
    \/ \E o \in {"nil", "iter", "io"} : ClearAll(o)


(***************************************************************************)
(* Header sync: data                                                       *)
(***************************************************************************)
HsChains == {1, 2}
HsHeights == 0..MaxHsHeight
PeerKeys == {"a", "b"}

\* a foreign header: chain, height, the key that signed it, and the peer
\* set its consensus payload rotates to ({} when it carries no rotation)
HsHeaders ==
    {[ShardID |-> c, Height |-> h, Signer |-> k, NewPeers |-> n] :
        c \in HsChains, h \in HsHeights, k \in PeerKeys,
        n \in {{}, {"a"}, {"b"}}}

\* raw bytes HeaderFromRawBytes rejects
Garbage == [ShardID |-> 0, Height |-> 0, Signer |-> "", NewPeers |-> {}]

Slot(header) == <<header.ShardID, header.Height>>

(***************************************************************************)
(* Header sync: the storage helpers of the handler.  hs is a record        *)
(* [headers, peers, applied, accepted]                                     *)
(***************************************************************************)
\* GetHeaderByHeight: an error when the read fails or nothing is stored
GetHeaderByHeight(hs, chain, height, ioFails) ==
    IF ioFails THEN "io"
    ELSE IF <<chain, height>> \in DOMAIN hs.headers THEN "nil"
    ELSE "not found"

\* the duplicate check of SyncBlockHeader on GetHeaderByHeight's error
IsDuplicate(err) == err = "nil"

\* the latest peer set registered for the chain at a height <= height
PeersInForce(hs, chain, height) ==
    LET at == {h \in 0..height : <<chain, h>> \in DOMAIN hs.peers} IN
    IF at = {} THEN {}
    ELSE hs.peers[<<chain, CHOOSE h \in at : \A g \in at : g <= h>>]

\* verifyHeader: the signer belongs to the peer set in force before the header
verifyHeader(hs, header) ==
    /\ header.Height > 0
    /\ header.Signer \in PeersInForce(hs, header.ShardID, header.Height - 1)

PutBlockHeader(hs, header) ==
    [hs EXCEPT !.headers = DbPut(@, Slot(header), header),
               !.applied = @ \ {Slot(header)}]

\* UpdateConsensusPeer: append the rotation the header carries, if any
UpdateConsensusPeer(hs, header) ==
    [hs EXCEPT !.peers = IF header.NewPeers = {} THEN @
                         ELSE DbPut(@, Slot(header), header.NewPeers),
               !.applied = @ \cup {Slot(header)}]

NoFault == [at |-> 0, kind |-> "none"]
Fails(fault, i, kind) == fault.at = i /\ fault.kind = kind

\* the steps SyncBlockHeader runs on one header of its list
SyncOne(hs, header, i, fault) ==
    IF header = Garbage
    THEN [hs |-> hs, err |-> "HeaderFromRawBytes"]
    ELSE IF IsDuplicate(GetHeaderByHeight(hs, header.ShardID, header.Height,
                                          Fails(fault, i, "get")))
    THEN [hs |-> hs, err |-> "duplicate"]
    ELSE IF ~verifyHeader(hs, header)
    THEN [hs |-> hs, err |-> "verifyHeader"]
    ELSE IF Fails(fault, i, "put")
    THEN [hs |-> hs, err |-> "put BlockHeader"]
    ELSE LET put == PutBlockHeader(hs, header) IN
         IF Fails(fault, i, "update")
         THEN [hs |-> put, err |-> "update ConsensusPeer"]
         ELSE [hs |-> [UpdateConsensusPeer(put, header)
                          EXCEPT !.accepted = @ \cup {Slot(header)}],
               err |-> "nil"]

\* a loop that skips a header that fails and goes on with the next one
RECURSIVE MutSyncFrom(_, _, _, _)
MutSyncFrom(hs, headers, i, fault) ==
    IF i > Len(headers) THEN [hs |-> hs, err |-> "nil", at |-> 0]
    ELSE LET one == SyncOne(hs, headers[i], i, fault)
             rest == MutSyncFrom(one.hs, headers, i + 1, fault)
         IN  IF one.err # "nil"
             THEN [hs |-> rest.hs, err |-> one.err, at |-> i]
             ELSE rest

\* the loop of SyncBlockHeader from list position i on
RECURSIVE SyncFrom(_, _, _, _)
SyncFrom(hs, headers, i, fault) ==
    IF i > Len(headers) THEN [hs |-> hs, err |-> "nil", at |-> 0]
    ELSE LET one == SyncOne(hs, headers[i], i, fault) IN
         IF one.err # "nil" THEN [hs |-> one.hs, err |-> one.err, at |-> i]
         ELSE SyncFrom(one.hs, headers, i + 1, fault)

\* the lookup of GetHeaderByHeight met a storage failure during the call:
\* the loop got to the position of the failure and parsed the header there
LookupFailed(headers, fault, at) ==
    /\ fault.kind = "get"
    /\ fault.at \in 1..Len(headers)
    /\ headers[fault.at] # Garbage
    /\ (at = 0 \/ at >= fault.at)

\* a SyncGenesisHeader without the ownership check
MutGenesisResult(hs, header, witnessOk, fault) ==
    IF header = Garbage THEN [hs |-> hs, err |-> "HeaderFromRawBytes"]
    ELSE IF Fails(fault, 1, "put") THEN [hs |-> hs, err |-> "put blockHeader"]
    ELSE LET put == PutBlockHeader(hs, header) IN
         IF Fails(fault, 1, "update")
         THEN [hs |-> put, err |-> "update ConsensusPeer"]
         ELSE [hs |-> UpdateConsensusPeer(put, header), err |-> "nil"]

\* the steps of SyncGenesisHeader after the parameters are read
GenesisResult(hs, header, witnessOk, fault) ==
    IF ~witnessOk THEN [hs |-> hs, err |-> "checkWitness"]
    ELSE IF header = Garbage THEN [hs |-> hs, err |-> "HeaderFromRawBytes"]
    ELSE IF Fails(fault, 1, "put") THEN [hs |-> hs, err |-> "put blockHeader"]
    ELSE LET put == PutBlockHeader(hs, header) IN
         IF Fails(fault, 1, "update")
         THEN [hs |-> put, err |-> "update ConsensusPeer"]
         ELSE [hs |-> UpdateConsensusPeer(put, header), err |-> "nil"]

(***************************************************************************)
(* Header sync: operations                                                 *)
(***************************************************************************)
HsState == [headers |-> hsHeaders, peers |-> hsPeers, applied |-> hsApplied,
            accepted |-> hsAccepted]

HsInstall(hs) ==
    /\ hsHeaders' = hs.headers
    /\ hsPeers' = hs.peers
    /\ hsApplied' = hs.applied
    /\ hsAccepted' = hs.accepted

SlotsOf(headers) == [i \in 1..Len(headers) |-> Slot(headers[i])]

HsStep == /\ hsOps < MaxSyncOps
          /\ hsOps' = hsOps + 1
          /\ UNCHANGED <<bsVars, hpVars, ccVars>>

SyncGenesisHeader(header, witnessOk, fault) ==
    /\ HsStep
    /\ \E r \in {GenesisResult(HsState, header, witnessOk, fault)} :
       /\ HsInstall(r.hs)
       /\ hsSynced' = IF r.err = "nil" THEN hsSynced \cup {header.ShardID}
                      ELSE hsSynced
       /\ hsLast' = [op |-> "SyncGenesisHeader", err |-> r.err,
                     slots |-> <<Slot(header)>>, at |-> 0,
                     owner |-> witnessOk, lookupFailed |-> FALSE]

SyncBlockHeader(headers, fault) ==
    /\ HsStep
    /\ \E r \in {SyncFrom(HsState, headers, 1, fault)} :
       /\ HsInstall(r.hs)
       /\ hsLast' = [op |-> "SyncBlockHeader", err |-> r.err,
                     slots |-> SlotsOf(headers), at |-> r.at, owner |-> FALSE,
                     lookupFailed |-> LookupFailed(headers, fault, r.at)]
    /\ UNCHANGED hsSynced

HsInit ==
    /\ hsHeaders = EmptyMap
    /\ hsPeers = EmptyMap
    /\ hsApplied = {}
    /\ hsSynced = {}
    /\ hsAccepted = {}
    /\ hsLast = [op |-> "none", err |-> "nil", slots |-> <<>>, at |-> 0,
                 owner |-> FALSE, lookupFailed |-> FALSE]
    /\ hsOps = 0

HsItems == HsHeaders \cup {Garbage}
\* calls carry one header of any kind, or two of the plain kind (signed by
\* "a", no rotation) or unparsable
HsPairItems ==
    {h \in HsHeaders : h.Signer = "a" /\ h.NewPeers = {}} \cup {Garbage}
HsLists == [1..1 -> HsItems] \cup [1..2 -> HsPairItems]
HsFaults(n) ==
    {NoFault} \cup {[at |-> i, kind |-> k] :
                       i \in 1..n, k \in {"get", "put", "update"}}

HsNext ==
    \/ \E h \in HsItems, w \in BOOLEAN :
           \E f \in {x \in HsFaults(1) : x.kind # "get" /\ (~w => x = NoFault)} :
               SyncGenesisHeader(h, w, f)
    \/ \E l \in HsLists : \E f \in HsFaults(Len(l)) : SyncBlockHeader(l, f)

\* chain 1 bootstrapped with peers {"a"}, then calls with lists of one or two
\* headers of chain 1 and any storage failure
HsListNext ==
    \/ \E h \in {x \in HsHeaders : x.ShardID = 1 /\ x.Height = 0
                                      /\ x.NewPeers = {"a"}} :
           SyncGenesisHeader(h, TRUE, NoFault)
    \/ \E l \in {x \in HsLists : \A i \in 1..Len(x) : x[i].ShardID \in {0, 1}} :
           \E f \in HsFaults(Len(l)) : SyncBlockHeader(l, f)

\* calls that carry one header and meet no storage failure
HsPlainNext ==
    \/ \E h \in HsItems, w \in BOOLEAN : SyncGenesisHeader(h, w, NoFault)
    \/ \E h \in HsItems : SyncBlockHeader(<<h>>, NoFault)

(***************************************************************************)
(* Header sync: SyncBlockHeader step by step.  Nothing in the handler       *)
(* orders two calls: each runs its storage operations one at a time, and    *)
(* the operations of two calls interleave freely.  A call carries one       *)
(* header; storage does not fail here.                                      *)
(***************************************************************************)
Callers == {"c1", "c2"}

\* done: the steps of the loop body the call has passed for its header
Idle == [pc |-> "idle", header |-> Garbage, done |-> <<>>]

HpStep(caller, pc) ==
    /\ hsProc[caller].pc = pc
    /\ UNCHANGED <<bsVars, ccVars, hsSynced, hsLast, hsOps>>

HpGoto(caller, pc) ==
    hsProc' = [hsProc EXCEPT ![caller].pc = pc,
                             ![caller].done = Append(@, hsProc[caller].pc)]

\* the call is made and its header parsed
BeginSync(caller, header) ==
    /\ HpStep(caller, "idle")
    /\ hsCalls < MaxSyncCalls
    /\ hsCalls' = hsCalls + 1
    /\ hsProc' = [hsProc EXCEPT ![caller] = [pc |-> "check", header |-> header,
                                             done |-> <<>>]]
    /\ UNCHANGED <<hsHeaders, hsPeers, hsApplied, hsAccepted, hsPuts, hsRotations>>

\* a loop body that persists the header right after the duplicate check
MutCheckDuplicate(caller) ==
    /\ HpStep(caller, "check")
    /\ LET header == hsProc[caller].header IN
       IF IsDuplicate(GetHeaderByHeight(HsState, header.ShardID, header.Height,
                                        FALSE))
       THEN hsProc' = [hsProc EXCEPT ![caller] = Idle]
       ELSE HpGoto(caller, "put")
    /\ UNCHANGED <<hsHeaders, hsPeers, hsApplied, hsAccepted, hsPuts,
                   hsRotations, hsCalls>>

\* GetHeaderByHeight and the duplicate check
CheckDuplicate(caller) ==
    /\ HpStep(caller, "check")
    /\ LET header == hsProc[caller].header IN
       IF IsDuplicate(GetHeaderByHeight(HsState, header.ShardID, header.Height,
                                        FALSE))
       THEN hsProc' = [hsProc EXCEPT ![caller] = Idle]
       ELSE HpGoto(caller, "verify")
    /\ UNCHANGED <<hsHeaders, hsPeers, hsApplied, hsAccepted, hsPuts,
                   hsRotations, hsCalls>>

VerifyStep(caller) ==
    /\ HpStep(caller, "verify")
    /\ IF verifyHeader(HsState, hsProc[caller].header)
       THEN HpGoto(caller, "put")
       ELSE hsProc' = [hsProc EXCEPT ![caller] = Idle]
    /\ UNCHANGED <<hsHeaders, hsPeers, hsApplied, hsAccepted, hsPuts,
                   hsRotations, hsCalls>>

PutStep(caller) ==
    /\ HpStep(caller, "put")
    /\ LET header == hsProc[caller].header IN
       /\ HsInstall(PutBlockHeader(HsState, header))
       /\ hsPuts' = [hsPuts EXCEPT ![Slot(header)] = @ + 1]
    /\ HpGoto(caller, "update")
    /\ UNCHANGED <<hsRotations, hsCalls>>

UpdateStep(caller) ==
    /\ HpStep(caller, "update")
    /\ LET header == hsProc[caller].header IN
       /\ HsInstall([UpdateConsensusPeer(HsState, header)
                         EXCEPT !.accepted = @ \cup {Slot(header)}])
       /\ hsRotations' = IF header.NewPeers = {} THEN hsRotations
                         ELSE [hsRotations EXCEPT ![Slot(header)] = @ + 1]
    /\ hsProc' = [hsProc EXCEPT ![caller] = Idle]
    /\ UNCHANGED <<hsPuts, hsCalls>>

HpInit ==
    /\ hsProc = [c \in Callers |-> Idle]
    /\ hsPuts = [s \in HsChains \X HsHeights |-> 0]
    /\ hsRotations = [s \in HsChains \X HsHeights |-> 0]
    /\ hsCalls = 0

\* the chains are bootstrapped with the genesis headers that set peers {"a"}
HpNext ==
    \/ \E h \in {x \in HsHeaders : x.Height = 0 /\ x.NewPeers = {"a"}} :
           SyncGenesisHeader(h, TRUE, NoFault)
    \/ \E c \in Callers, h \in HsHeaders : BeginSync(c, h)
    \/ \E c \in Callers : CheckDuplicate(c)
    \/ \E c \in Callers : VerifyStep(c)
    \/ \E c \in Callers : PutStep(c)
    \/ \E c \in Callers : UpdateStep(c)

\* the same steps with every call on chain 1
HpOneChainNext ==
    \/ \E h \in {x \in HsHeaders : x.ShardID = 1 /\ x.Height = 0
                                      /\ x.NewPeers = {"a"}} :
           SyncGenesisHeader(h, TRUE, NoFault)
    \/ \E c \in Callers, h \in {x \in HsHeaders : x.ShardID = 1} :
           BeginSync(c, h)
    \/ \E c \in Callers : CheckDuplicate(c)
    \/ \E c \in Callers : VerifyStep(c)
    \/ \E c \in Callers : PutStep(c)
    \/ \E c \in Callers : UpdateStep(c)

(***************************************************************************)
(* Cross chain manager: data                                               *)
(***************************************************************************)
\* the supported chain ids and one id that no handler supports
UnsupportedId == NEO_CHAIN_ID + 1
CcChainIds == 1..UnsupportedId

\* a proof: whether it verifies, and the target chain its deposit names
Proofs ==
    {[id |-> i, valid |-> TRUE, ToChainID |-> c] :
        i \in 1..MaxProofs, c \in CcChainIds}
    \cup {[id |-> i, valid |-> FALSE, ToChainID |-> 0] : i \in 1..MaxProofs}

\* the TargetChainID values callers put in the EntranceParam
CallerTargets == {BTC_CHAIN_ID, ETH_CHAIN_ID}

\* the SourceChainID values callers send: the chain ids and 0, the ChainId
\* of the record GetSideChain returns for an unregistered chain
EntranceParams ==
    {[SourceChainID |-> s, TargetChainID |-> t, Proof |-> p] :
        s \in {0} \cup CcChainIds, t \in CallerTargets, p \in Proofs}

\* Vote reads the proof only; the proposals voted on name a registered and
\* supported target, an unregistered one or an unsupported one
VoteProofs ==
    {p \in Proofs :
        p.valid => p.ToChainID \in {ETH_CHAIN_ID, NEO_CHAIN_ID, UnsupportedId}}

VoteParams ==
    {[SourceChainID |-> BTC_CHAIN_ID, TargetChainID |-> BTC_CHAIN_ID,
      Proof |-> p] : p \in VoteProofs}

Voters == {"r1", "r2", "r3"}

(***************************************************************************)
(* Cross chain manager: collaborators                                      *)
(***************************************************************************)
\* side_chain_manager.GetSideChain: the record of a registered chain, an
\* empty record for an unregistered one, an error when the read fails
GetSideChain(registry, chainid, ioFails) ==
    IF ioFails THEN [err |-> "io", ChainId |-> 0]
    ELSE [err |-> "nil", ChainId |-> IF chainid \in registry THEN chainid ELSE 0]

GetChainHandler(chainid) ==
    CASE chainid = BTC_CHAIN_ID -> [err |-> "nil", handler |-> "btc"]
      [] chainid = ETH_CHAIN_ID -> [err |-> "nil", handler |-> "eth"]
      [] chainid = ONT_CHAIN_ID -> [err |-> "nil", handler |-> "ont"]
      [] chainid = NEO_CHAIN_ID -> [err |-> "nil", handler |-> "neo"]
      [] OTHER -> [err |-> "not a supported chainid", handler |-> "none"]

\* ChainHandler.MakeDepositProposal: a function of the proof alone
MakeDepositProposal(params) ==
    IF params.Proof.valid
    THEN [err |-> "nil", ToChainID |-> params.Proof.ToChainID,
          proof |-> params.Proof]
    ELSE [err |-> "proof", ToChainID |-> 0, proof |-> params.Proof]

\* ChainHandler.MakeTransaction on the handler of chain target: queues the
\* proposal once; a proposal already queued there is rejected
MakeTransaction(applied, target, txParam, ioFails) ==
    IF ioFails THEN [err |-> "io", applied |-> applied]
    ELSE IF applied[<<target, txParam.proof>>] > 0
    THEN [err |-> "duplicate", applied |-> applied]
    ELSE [err |-> "nil",
          applied |-> [applied EXCEPT ![<<target, txParam.proof>>] = @ + 1]]

\* BTCHandler.Vote: counts the voter once; reports the crossing on the vote
\* that brings the count to the threshold
HandlerVote(votes, params, voter, ioFails) ==
    LET p == params.Proof IN
    IF ioFails \/ ~p.valid
    THEN [err |-> IF ioFails THEN "io" ELSE "proof", ok |-> FALSE,
          votes |-> votes]
    ELSE IF voter \in votes[p]
    THEN [err |-> "nil", ok |-> FALSE, votes |-> votes]
    ELSE [err |-> "nil",
          ok |-> Cardinality(votes[p] \cup {voter}) = VoteThreshold,
          votes |-> [votes EXCEPT ![p] = @ \cup {voter}]]

(***************************************************************************)
(* Cross chain manager: the entrance                                       *)
(***************************************************************************)
\* a registration check that passes every record
MutIsRegistered(sideChain, chainID) == TRUE

\* the check made on a registry record
IsRegistered(sideChain, chainID) == sideChain.ChainId = chainID

\* forwarding for every source chain
MutForwardsAlways(chainID) == TRUE

\* forwarding for chain id 2 alone
MutForwardsAtOnce(chainID) == chainID = 2

\* ImportExTransfer: the source chains whose proposal is forwarded at once
ForwardsAtOnce(chainID) == chainID = 2 \/ chainID = 3

\* routing back to the chain the proof came from
MutTargetBySource(params, txParam) == params.SourceChainID

\* routing by the caller's TargetChainID
MutTargetId(params, txParam) == params.TargetChainID

\* the chain the outgoing transaction is made on
TargetId(params, txParam) == txParam.ToChainID

Call(fn, chain) == [fn |-> fn, chain |-> chain]
\* lookup: what the registry lookup of the target chain returned, if made
Done(ok, err, calls, applied) ==
    [ok |-> ok, err |-> err, calls |-> calls, applied |-> applied,
     lookup |-> "none"]

\* target steps that go on when the registry lookup fails
MutMakeTargetTx(registry, applied, params, txParam, fault, calls) ==
    LET targetid == TargetId(params, txParam)
        sideChain == GetSideChain(registry, targetid, fault = "target registry")
        c1 == Append(calls, Call("GetSideChain", targetid))
        targetHandler == GetChainHandler(targetid)
        c2 == Append(c1, Call("GetChainHandler", targetid))
        made == MakeTransaction(applied, targetid, txParam, fault = "MakeTransaction")
        c3 == Append(c2, Call("MakeTransaction", targetid))
        Seen(d) == [d EXCEPT !.lookup =
                       IF sideChain.err # "nil" THEN "error"
                       ELSE IF sideChain.ChainId = targetid THEN "found"
                       ELSE "absent"]
    IN  IF sideChain.err = "nil" /\ ~IsRegistered(sideChain, targetid)
        THEN Seen(Done(FALSE, "targetid chain is not registered", c1, applied))
        ELSE IF targetHandler.err # "nil"
        THEN Seen(Done(FALSE, targetHandler.err, c2, applied))
        ELSE IF made.err # "nil" THEN Seen(Done(FALSE, made.err, c3, applied))
        ELSE Seen(Done(TRUE, "nil", c3, made.applied))

\* "2. make target chain tx" of ImportExTransfer and of Vote
MakeTargetTx(registry, applied, params, txParam, fault, calls) ==
    LET targetid == TargetId(params, txParam)
        sideChain == GetSideChain(registry, targetid, fault = "target registry")
        c1 == Append(calls, Call("GetSideChain", targetid))
        targetHandler == GetChainHandler(targetid)
        c2 == Append(c1, Call("GetChainHandler", targetid))
        made == MakeTransaction(applied, targetid, txParam, fault = "MakeTransaction")
        c3 == Append(c2, Call("MakeTransaction", targetid))
        Seen(d) == [d EXCEPT !.lookup =
                       IF sideChain.err # "nil" THEN "error"
                       ELSE IF sideChain.ChainId = targetid THEN "found"
                       ELSE "absent"]
    IN  IF sideChain.err # "nil"
        THEN Seen(Done(FALSE, "GetSideChain error", c1, applied))
        ELSE IF ~IsRegistered(sideChain, targetid)
        THEN Seen(Done(FALSE, "targetid chain is not registered", c1, applied))
        ELSE IF targetHandler.err # "nil"
        THEN Seen(Done(FALSE, targetHandler.err, c2, applied))
        ELSE IF made.err # "nil" THEN Seen(Done(FALSE, made.err, c3, applied))
        ELSE Seen(Done(TRUE, "nil", c3, made.applied))

ImportResult(registry, applied, params, fault) ==
    LET chainID == params.SourceChainID
        sideChain == GetSideChain(registry, chainID, fault = "source registry")
        c1 == <<Call("GetSideChain", chainID)>>
        handler == GetChainHandler(chainID)
        c2 == Append(c1, Call("GetChainHandler", chainID))
        txParam == MakeDepositProposal(params)
        c3 == Append(c2, Call("MakeDepositProposal", chainID))
    IN  IF sideChain.err # "nil" THEN Done(FALSE, "GetSideChain error", c1, applied)
        ELSE IF ~IsRegistered(sideChain, chainID)
        THEN Done(FALSE, "side chain is not registered", c1, applied)
        ELSE IF handler.err # "nil" THEN Done(FALSE, handler.err, c2, applied)
        ELSE IF txParam.err # "nil" THEN Done(FALSE, txParam.err, c3, applied)
        ELSE IF ForwardsAtOnce(chainID)
        THEN MakeTargetTx(registry, applied, params, txParam, fault, c3)
        ELSE Done(TRUE, "nil", c3, applied)

\* never making the target transaction
MutVoteSkipsTx(ok) == FALSE

\* making the target transaction on every vote
MutVoteMakesTx(ok) == TRUE

\* Vote: whether the target transaction is made after the handler's Vote
VoteMakesTx(ok) == ok

VoteResult(registry, applied, votes, params, voter, fault) ==
    LET v == HandlerVote(votes, params, voter, fault = "Vote")
        c1 == <<Call("Vote", BTC_CHAIN_ID)>>
        txParam == MakeDepositProposal(params)
    IN  IF v.err # "nil"
        THEN [r |-> Done(FALSE, v.err, c1, applied), v |-> v]
        ELSE IF VoteMakesTx(v.ok)
        THEN [r |-> MakeTargetTx(registry, applied, params, txParam, fault, c1),
              v |-> v]
        ELSE [r |-> Done(TRUE, "nil", c1, applied), v |-> v]

CcStep(max) == /\ ccOps < max
               /\ ccOps' = ccOps + 1
               /\ UNCHANGED <<bsVars, hsVars, hpVars, ccRegistry>>

MadeTx(calls) == {i \in 1..Len(calls) : calls[i].fn = "MakeTransaction"}

ImportExTransfer(params, fault) ==
    /\ CcStep(MaxCcOps)
    /\ \E r \in {ImportResult(ccRegistry, ccApplied, params, fault)} :
        /\ ccApplied' = r.applied
        /\ ccLast' = [op |-> "ImportExTransfer", ok |-> r.ok, err |-> r.err,
                      calls |-> r.calls, params |-> params, voter |-> "",
                      crossed |-> FALSE, voteErr |-> "nil",
                      lookup |-> r.lookup]
    /\ UNCHANGED <<ccVotes, ccCrossed, ccVoteTx>>

Vote(params, voter, fault) ==
    /\ CcStep(MaxVotes)
    /\ \E x \in {VoteResult(ccRegistry, ccApplied, ccVotes, params, voter, fault)} :
        /\ ccApplied' = x.r.applied
        /\ ccVotes' = x.v.votes
        /\ ccCrossed' = IF x.v.ok
                        THEN [ccCrossed EXCEPT ![params.Proof] = @ + 1]
                        ELSE ccCrossed
        /\ ccVoteTx' = [ccVoteTx EXCEPT
                           ![params.Proof] = @ + Cardinality(MadeTx(x.r.calls))]
        /\ ccLast' = [op |-> "Vote", ok |-> x.r.ok, err |-> x.r.err,
                      calls |-> x.r.calls, params |-> params, voter |-> voter,
                      crossed |-> x.v.ok, voteErr |-> x.v.err,
                      lookup |-> x.r.lookup]

\* registered: BTC, ETH, ONT and an id no handler supports; NEO is not
CcInit ==
    /\ ccRegistry = {BTC_CHAIN_ID, ETH_CHAIN_ID, ONT_CHAIN_ID, UnsupportedId}
    /\ ccApplied = [k \in CcChainIds \X Proofs |-> 0]
    /\ ccVotes = [p \in Proofs |-> {}]
    /\ ccCrossed = [p \in Proofs |-> 0]
    /\ ccVoteTx = [p \in Proofs |-> 0]
    /\ ccLast = [op |-> "none", ok |-> FALSE, err |-> "nil", calls |-> <<>>,
                 params |-> [SourceChainID |-> 0, TargetChainID |-> 0,
                             Proof |-> [id |-> 0, valid |-> FALSE, ToChainID |-> 0]],
                 voter |-> "", crossed |-> FALSE, voteErr |-> "nil",
                 lookup |-> "none"]
    /\ ccOps = 0

ImportFaults == {"none", "source registry", "target registry", "MakeTransaction"}
VoteFaults == {"none", "Vote", "target registry", "MakeTransaction"}

ImportNext ==
    \E p \in EntranceParams, f \in ImportFaults : ImportExTransfer(p, f)

VoteNext ==
    \E p \in VoteParams, v \in Voters, f \in VoteFaults : Vote(p, v, f)

\* both entry points: ImportExTransfer from the source chains whose
\* proposal is forwarded at once, and Vote
TargetNext ==
    \/ \E p \in {x \in EntranceParams :
                     /\ x.SourceChainID \in {ETH_CHAIN_ID, ONT_CHAIN_ID}
                     /\ x.TargetChainID = BTC_CHAIN_ID},
           f \in ImportFaults : ccOps < MaxTargetOps /\ ImportExTransfer(p, f)
    \/ ccOps < MaxTargetOps /\ VoteNext

(***************************************************************************)
(* Specifications                                                          *)
(***************************************************************************)
Init == BsInit /\ HsInit /\ HpInit /\ CcInit

SpecStore == Init /\ [][BsNext]_vars

\* the block store created with the cache disabled
InitNoCache == Init /\ enableCache = FALSE

SpecStoreNoCache == InitNoCache /\ [][BsNext]_vars

\* the block store opened on an existing directory
InitOpened == BsInitOpened /\ HsInit /\ HpInit /\ CcInit

SpecStoreOpened == InitOpened /\ [][BsNext]_vars

\* the block store opened on a damaged directory
InitDamaged == BsInitDamaged /\ HsInit /\ HpInit /\ CcInit

SpecStoreDamaged == InitDamaged /\ [][BsNext]_vars

\* header sync and the entrance do not use the block store: its
\* configuration is fixed
InitNoStore == Init /\ enableCache = TRUE

SpecSync == InitNoStore /\ [][HsNext]_vars

\* header sync while storage does not fail
SpecSyncPlain == InitNoStore /\ [][HsPlainNext]_vars

\* ImportExTransfer and Vote together
SpecTarget == InitNoStore /\ [][TargetNext]_vars

\* SyncBlockHeader calls with lists of headers of one chain
SpecSyncLists == InitNoStore /\ [][HsListNext]_vars

\* SyncBlockHeader calls whose storage operations interleave
SpecSyncSteps == InitNoStore /\ [][HpNext]_vars

\* the interleaved SyncBlockHeader calls of one chain
SpecSyncStepsOneChain == InitNoStore /\ [][HpOneChainNext]_vars

\* sequences of ImportExTransfer calls
SpecEntrance == InitNoStore /\ [][ImportNext]_vars

\* sequences of Vote calls
SpecVote == InitNoStore /\ [][VoteNext]_vars

(***************************************************************************)
(* BlockStore: claims                                                      *)
(***************************************************************************)
Returns(b) == GetBlock(View, BlockHash(b)) = [err |-> "nil", block |-> b]

HeaderReadable(b) == GetHeader(View, BlockHash(b)).err = "nil"
TxReadable(t) == GetTransaction(View, TxHash(t)).err = "nil"
TxsOf(b) == {b.Transactions[i] : i \in 1..Len(b.Transactions)}

\* the transactions of b were written by SaveBlock(b) and by nothing else
OwnsItsTxs(b) ==
    \A t \in TxsOf(b) :
        /\ TxHash(t) \notin bsTxAlone
        /\ \A o \in bsSaved \ {b} : t \notin TxsOf(o)

\* C2: of every block given to SaveBlock, either the header and all the
\* transactions are readable or none of them is, in every state.
C2_BlockAllOrNone ==
    \A b \in bsSaved :
        OwnsItsTxs(b) =>
            \/ HeaderReadable(b) /\ \A t \in TxsOf(b) : TxReadable(t)
            \/ ~HeaderReadable(b) /\ \A t \in TxsOf(b) : ~TxReadable(t)

StagedPuts == {i \in 1..Len(batch.ops) : batch.ops[i].kind = "put"}

SameReads(v, w) ==
    \A x \in Hashes :
        /\ GetBlock(v, x) = GetBlock(w, x)
        /\ GetHeader(v, x) = GetHeader(w, x)
        /\ GetTransaction(v, x) = GetTransaction(w, x)
        /\ ContainBlock(v, x) = ContainBlock(w, x)
        /\ ContainTransaction(v, x) = ContainTransaction(w, x)

\* C3: while writes are staged and not yet committed, every read returns
\* what it returned when the batch was started, with or without the cache.
C3_ReadsIgnoreStaged ==
    (batch.open /\ StagedPuts # {}) => SameReads(View, bsPre)

\* C12: after every sequence of operations, every read returns the same
\* result from a store with the cache enabled and from one with the cache
\* disabled.
\* The same operations leave the same contents in a store opened with the
\* cache disabled, which never looks at the cache.
C12_CacheTransparent ==
    SameReads(View, [View EXCEPT !.enableCache = FALSE,
                                 !.blockCache = EmptyMap,
                                 !.txCache = EmptyMap])

\* C13: right after a successful ClearAll every Get* reports not-found,
\* ContainBlock and ContainTransaction return false and the version marker
\* is absent.
C13_ClearAllEmpties ==
    (bsLast.op = "ClearAll" /\ bsLast.err = "nil") =>
        LET NotFound(r) == r.err = "ErrNotFound" IN
        /\ \A x \in Hashes :
               /\ NotFound(GetBlock(View, x))
               /\ NotFound(GetHeader(View, x))
               /\ NotFound(GetTransaction(View, x))
               /\ ~ContainBlock(View, x)
               /\ ~ContainTransaction(View, x)
        /\ \A h \in Heights : NotFound(GetBlockHash(View, h))
        /\ NotFound(GetCurrentBlock(View))
        /\ NotFound(GetVersion(View))

\* C14: when CommitTo fails, it returns the error and GetCurrentBlock
\* reports the tip (hash and height) committed before the batch was started.
C14_FailedCommitKeepsTip ==
    (bsLast.op = "CommitTo" /\ bsLast.err # "nil" /\ batch.open)
        => GetCurrentBlock(View) = GetCurrentBlock(bsPre)

C14_Witness ==
    /\ bsLast.op = "CommitTo" /\ bsLast.err # "nil"
    /\ GetCurrentBlock(View).err = "nil"
    /\ \E j \in StagedPuts :
           /\ batch.ops[j].key = getCurrentBlockKey
           /\ batch.ops[j].value # store[getCurrentBlockKey]

\* the results of the reads of one record type
TypeReads(v, type) ==
    CASE type = "header" ->
             [x \in Hashes |-> <<GetHeader(v, x), ContainBlock(v, x)>>]
      [] type = "transaction" ->
             [x \in Hashes |->
                 <<GetTransaction(v, x), ContainTransaction(v, x)>>]
      [] type = "blockHash" -> [h \in Heights |-> GetBlockHash(v, h)]
      [] type = "tip" -> GetCurrentBlock(v)
      [] type = "version" -> GetVersion(v)

\* C21: a write of one record type, when it is called and when the batch
\* that holds nothing else is committed (SaveVersion writes at once, outside
\* the batch), leaves the reads of every other record type as they were,
\* also for a hash that is both a block hash and a transaction hash.
C21_TypesApart ==
    [][LET RecordTypes ==
               {"header", "transaction", "blockHash", "tip", "version"}
           Written == [SaveBlock |-> {"header", "transaction"},
                       SaveTransaction |-> {"transaction"},
                       SaveBlockHash |-> {"blockHash"},
                       SaveCurrentBlock |-> {"tip"},
                       SaveVersion |-> {"version"}]
       IN
       \A op \in DOMAIN Written :
          LET called == bsOps' # bsOps /\ bsLast'.op = op
              committed ==
                  /\ bsOps' # bsOps
                  /\ bsLast'.op = "CommitTo" /\ bsLast'.err = "nil"
                  /\ bsLast.op = op /\ op # "SaveVersion"
                  /\ Len(batch.ops) =
                         IF op = "SaveBlock"
                         THEN 1 + Cardinality(UNION {TxsOf(b) : b \in bsStaged})
                         ELSE 1
          IN  (called \/ committed) =>
                  \A t \in RecordTypes \ Written[op] :
                      View' = View \/ TypeReads(View, t)' = TypeReads(View, t)]_vars

\* a transaction whose hash is also a block hash was committed alone: it is
\* readable and no header is
C21_Witness ==
    /\ bsLast.op = "CommitTo" /\ bsLast.err = "nil"
    /\ \E t \in Txs :
           /\ TxHash(t) \in {BlockHash(b) : b \in Blocks}
           /\ DOMAIN store = {getTransactionKey(TxHash(t))}
           /\ GetTransaction(View, TxHash(t)).err = "nil"
           /\ GetHeader(View, TxHash(t)).err = "ErrNotFound"

\* C25: with the cache disabled, SaveBlock (and the SaveHeader and
\* SaveTransaction it calls), SaveTransaction, SaveCurrentBlock and
\* SaveBlockHash change the result of no read, and neither does a CommitTo
\* that fails; after a CommitTo that succeeds every write staged since the
\* last NewBatch is readable.
C25_StagedUntilCommit ==
    [][(~enableCache /\ bsOps' # bsOps) =>
          LET Put(k) ==
                  LET on == {j \in 1..Len(batch.ops) : batch.ops[j].key = k}
                      last == CHOOSE j \in on : \A i \in on : i <= j
                  IN  IF on # {} /\ batch.ops[last].kind = "put"
                      THEN <<batch.ops[last].value>> ELSE <<>>
              Unread ==
                  \/ View' = View
                  \/ /\ SameReads(View', View)
                     /\ \A t \in {"header", "transaction", "blockHash",
                                   "tip", "version"} :
                            TypeReads(View, t)' = TypeReads(View, t)
          IN
          /\ bsLast'.op \in {"SaveBlock", "SaveTransaction",
                              "SaveCurrentBlock", "SaveBlockHash"} => Unread
          /\ (bsLast'.op = "CommitTo" /\ bsLast'.err # "nil") => Unread
          /\ (bsLast'.op = "CommitTo" /\ bsLast'.err = "nil") =>
                 /\ \A b \in bsStaged :
                        /\ GetBlock(View, BlockHash(b))'
                               = [err |-> "nil", block |-> b]
                        /\ GetHeader(View, BlockHash(b))'
                               = [err |-> "nil", header |-> b.Header]
                        /\ ContainBlock(View, BlockHash(b))'
                        /\ \A t \in TxsOf(b) : ContainTransaction(View, TxHash(t))'
                 /\ \A t \in Txs :
                        LET p == Put(getTransactionKey(TxHash(t))) IN
                        p # <<>> =>
                            LET got == GetTransaction(View, TxHash(t))' IN
                            /\ got.err = "nil" /\ got.tx = t
                            /\ putTransactionValue(t, got.height) = p[1]
                 /\ \A h \in Heights :
                        LET p == Put(getBlockHashKey(h)) IN
                        p # <<>> =>
                            LET got == GetBlockHash(View, h)' IN
                            got.err = "nil" /\ ToArray(got.hash) = p[1]
                 /\ LET p == Put(getCurrentBlockKey) IN
                    p # <<>> =>
                        LET got == GetCurrentBlock(View)' IN
                        /\ got.err = "nil"
                        /\ SaveCurrentBlockValue(got.height, got.hash) = p[1]]_vars

\* with the cache disabled, a block with transactions was committed and is
\* readable, and nothing else is
C25_Witness ==
    /\ ~enableCache
    /\ bsLast.op = "CommitTo" /\ bsLast.err = "nil"
    /\ \E b \in bsLast.blocks :
           /\ b.Transactions # <<>>
           /\ Returns(b)
           /\ \A t \in TxsOf(b) : ContainTransaction(View, TxHash(t))
           /\ DOMAIN store = {getHeaderKey(BlockHash(b))}
                  \cup {getTransactionKey(TxHash(t)) : t \in TxsOf(b)}

\* C20: SaveBlockHash(h, b) is accepted whether or not h already has a hash,
\* and a successful commit leaves at every height the hash of the
\* SaveBlockHash called last for it and leaves the heights the batch does
\* not write as they were.
C20_BlockHashOverwritten ==
    [][LET \* the writes a batch holds on the block-hash key of a height,
           \* and the last of them
           StagedOn(b, height) ==
               {j \in 1..Len(b.ops) : b.ops[j].key = getBlockHashKey(height)}
           LastStagedOn(b, height) ==
               b.ops[CHOOSE j \in StagedOn(b, height) :
                            \A k \in StagedOn(b, height) : k <= j]
       IN
       /\ (bsOps' # bsOps /\ bsLast'.op = "SaveBlockHash") =>
             /\ bsLast'.err = "nil"
             /\ StagedOn(batch', bsLast'.arg[1]) # {}
             /\ LastStagedOn(batch', bsLast'.arg[1])
                    = [kind |-> "put", key |-> getBlockHashKey(bsLast'.arg[1]),
                       value |-> <<bsLast'.arg[2]>>]
       /\ (bsOps' # bsOps /\ bsLast'.op = "CommitTo" /\ bsLast'.err = "nil") =>
             \A h \in Heights :
                 /\ StagedOn(batch, h) = {}
                        => GetBlockHash(View, h)' = GetBlockHash(View, h)
                 /\ (StagedOn(batch, h) # {}
                        /\ LastStagedOn(batch, h).kind = "put")
                        => GetBlockHash(View, h)'
                               = [err |-> "nil",
                                  hash |-> LastStagedOn(batch, h).value[1]]]_vars

\* a committed SaveBlockHash replaced the hash the height had when the
\* store was opened, and the other height still has none
C20_Witness ==
    /\ bsLast.op = "CommitTo" /\ bsLast.err = "nil"
    /\ GetBlockHash(View, 0).err = "nil"
    /\ GetBlockHash(View, 0) # GetBlockHash(bsPre, 0)
    /\ GetBlockHash(bsPre, 0).hash = BlockHash(PriorBlock)
    /\ GetBlockHash(View, 1).err = "ErrNotFound"

\* C18: on a cache miss GetBlock returns a block only with the transactions
\* the stored hash list names, and returns an error and no block when one
\* of them is absent from the store.
C18_MissingTxIsError ==
    \A x \in Hashes :
        ~(enableCache /\ x \in DOMAIN blockCache) =>
            LET got == GetBlock(View, x)
                listed == loadHeaderWithTx(View, x).txHashes
                missing == {i \in 1..Len(listed) :
                               getTransactionKey(listed[i]) \notin DOMAIN store}
            IN  /\ got.err = "nil" =>
                       HashesOf(got.block.Transactions) = listed
                /\ missing # {} => got.err # "nil" /\ got.block = NilBlock

(***************************************************************************)
(* Header sync: claims                                                     *)
(***************************************************************************)
HsCall(op) == hsOps' # hsOps /\ hsLast'.op = op

\* C4: once SyncBlockHeader has accepted a header at (C, h), a later
\* SyncBlockHeader call carrying a header for (C, h) fails with the
\* duplicate-header error and changes neither the header stored at (C, h)
\* nor the consensus peer history.
C4_DuplicateRejected ==
    [][\A s \in hsAccepted :
          (HsCall("SyncBlockHeader") /\ hsLast'.slots = <<s>>)
              => /\ hsLast'.err = "duplicate"
                 /\ hsHeaders'[s] = hsHeaders[s]
                 /\ hsPeers' = hsPeers]_vars

\* C19: a storage failure of the header lookup that SyncBlockHeader uses as
\* its duplicate check is returned as an error: the call does not succeed
\* and does not go on as if no header were stored.
C19_LookupFailureReturned ==
    (hsLast.op = "SyncBlockHeader" /\ hsLast.lookupFailed)
        => hsLast.err = "io"

\* C26: SyncBlockHeader takes the headers in list order and stops at the
\* first that fails: the headers before it were persisted, no header after
\* it is persisted or changes the peer set, and the call returns an error;
\* it returns none only when no header failed.
C26_StopsAtFirstFailure ==
    [][HsCall("SyncBlockHeader") =>
          LET slots == hsLast'.slots
              at == hsLast'.at
              upTo == IF at = 0 THEN Len(slots) ELSE at
              changed ==
                  {s \in DOMAIN hsHeaders' :
                      s \notin DOMAIN hsHeaders \/ hsHeaders'[s] # hsHeaders[s]}
                  \cup {s \in DOMAIN hsPeers' :
                      s \notin DOMAIN hsPeers \/ hsPeers'[s] # hsPeers[s]}
          IN  /\ hsLast'.err = "nil" <=> at = 0
              /\ at \in 0..Len(slots)
              /\ \A j \in 1..(upTo - 1) : slots[j] \in DOMAIN hsHeaders'
              /\ at = 0 => \A j \in 1..Len(slots) : slots[j] \in DOMAIN hsHeaders'
              /\ \A s \in changed : \E j \in 1..upTo : slots[j] = s
              /\ (at > 0 /\ hsLast'.err \in {"HeaderFromRawBytes", "duplicate",
                                              "verifyHeader", "put BlockHeader"})
                     => \A s \in changed : \E j \in 1..(at - 1) : slots[j] = s]_vars

\* a call with two headers failed on the first, and the slot of the second,
\* whose header would have been accepted, is still empty
C26_Witness ==
    /\ hsLast.op = "SyncBlockHeader" /\ hsLast.at = 1 /\ Len(hsLast.slots) = 2
    /\ hsLast.err # "nil"
    /\ hsLast.slots[2] \notin DOMAIN hsHeaders
    /\ hsLast.slots[2][2] > 0
    /\ PeersInForce(HsState, hsLast.slots[2][1], hsLast.slots[2][2] - 1) = {"a"}

\* C5: in every state, every stored header has had its peer-set update
\* applied: a header is never stored without it.
C5_AllOrNothing ==
    \A s \in DOMAIN hsHeaders : s \in hsApplied

\* C6: SyncGenesisHeader on a chain that is already Synced is rejected and
\* changes neither the stored headers nor the peer history.
C6_GenesisOnce ==
    [][(HsCall("SyncGenesisHeader") /\ hsLast'.slots[1][1] \in hsSynced)
          => /\ hsLast'.err # "nil"
             /\ hsHeaders' = hsHeaders
             /\ hsPeers' = hsPeers]_vars

\* C15: a SyncGenesisHeader call whose ownership check fails returns an
\* error and changes neither the headers nor the peer sets; a header is
\* stored only by a SyncGenesisHeader call that passed the ownership check
\* or by SyncBlockHeader for a header signed by a peer in force before it.
C15_GenesisNeedsOwner ==
    [][/\ (HsCall("SyncGenesisHeader") /\ ~hsLast'.owner)
            => /\ hsLast'.err # "nil"
               /\ hsHeaders' = hsHeaders
               /\ hsPeers' = hsPeers
       /\ \A s \in {x \in DOMAIN hsHeaders' :
                      x \notin DOMAIN hsHeaders
                          \/ hsHeaders'[x] # hsHeaders[x]} :
            \/ HsCall("SyncGenesisHeader") /\ hsLast'.owner
            \/ /\ HsCall("SyncBlockHeader")
               /\ hsHeaders'[s].Height > 0
               /\ hsHeaders'[s].Signer
                      \in PeersInForce(HsState, s[1], s[2] - 1)]_vars

C15_Witness ==
    /\ hsLast.op = "SyncGenesisHeader" /\ ~hsLast.owner
    /\ hsLast.err # "nil"
    /\ hsLast.slots[1] \notin DOMAIN hsHeaders
    /\ hsHeaders # EmptyMap

\* C11: two SyncBlockHeader calls running at the same time with headers for
\* one (chain, height) never both pass the duplicate check: at most one
\* PutBlockHeader is made and at most one rotation appended for the slot.
C11_OneWriterPerSlot ==
    \A s \in DOMAIN hsPuts : hsPuts[s] <= 1 /\ hsRotations[s] <= 1

\* C22: a SyncBlockHeader call persists its header only after the header
\* passed the duplicate check and then verifyHeader, and updates the peer
\* set from a header only after it persisted that header.
C22_StepsInOrder ==
    [][hsOps' = hsOps =>
          /\ \A s \in DOMAIN hsPuts :
                 hsPuts'[s] # hsPuts[s] =>
                     \E c \in Callers :
                         /\ Slot(hsProc[c].header) = s
                         /\ hsHeaders'[s] = hsProc[c].header
                         /\ hsProc[c].done = <<"check", "verify">>
                         /\ hsProc'[c].done = <<"check", "verify", "put">>
          /\ (hsPeers' # hsPeers \/ hsApplied' \ hsApplied # {}
                  \/ hsRotations' # hsRotations) =>
                 \E c \in Callers :
                     /\ hsProc[c].done = <<"check", "verify", "put">>
                     /\ hsProc'[c] = Idle
                     /\ hsPuts[Slot(hsProc[c].header)] > 0
                     /\ hsPeers' = UpdateConsensusPeer(HsState,
                                                       hsProc[c].header).peers]_vars

\* a call persisted a header that carries a rotation and then appended the
\* rotation
C22_Witness ==
    \E s \in DOMAIN hsPuts :
        /\ hsPuts[s] > 0 /\ hsRotations[s] > 0
        /\ s \in DOMAIN hsPeers /\ s \in DOMAIN hsHeaders
        /\ hsPeers[s] = hsHeaders[s].NewPeers

(***************************************************************************)
(* Cross chain manager: claims                                             *)
(***************************************************************************)
SupportedIds == {BTC_CHAIN_ID, ETH_CHAIN_ID, ONT_CHAIN_ID, NEO_CHAIN_ID}

CcCalled(fn, chain) ==
    \E i \in 1..Len(ccLast.calls) : ccLast.calls[i] = Call(fn, chain)

ImportSucceeded == ccLast.op = "ImportExTransfer" /\ ccLast.ok

\* the source chain is registered, its handler was resolved and
\* MakeDepositProposal succeeded
SourceStepsDone ==
    LET p == ccLast.params IN
    /\ p.SourceChainID \in ccRegistry /\ CcCalled("GetSideChain", p.SourceChainID)
    /\ p.SourceChainID \in SupportedIds
    /\ CcCalled("GetChainHandler", p.SourceChainID)
    /\ p.Proof.valid /\ CcCalled("MakeDepositProposal", p.SourceChainID)

\* the target chain is registered, and MakeTransaction was called on its
\* handler and succeeded
TargetStepsDone ==
    LET p == ccLast.params
        t == p.Proof.ToChainID IN
    /\ t \in ccRegistry
    /\ t \in SupportedIds
    /\ CcCalled("MakeTransaction", t)
    /\ ccApplied[<<t, p.Proof>>] > 0

\* C7 (as stated): ImportExTransfer returns success only if all five steps
\* succeeded: source registered, source handler resolved, MakeDepositProposal
\* succeeded, target registered, MakeTransaction called on the target
\* handler and succeeded.
C7_FiveSteps ==
    ImportSucceeded => SourceStepsDone /\ TargetStepsDone

\* C7 (amended): ImportExTransfer returns success only if the three source
\* steps succeeded and, when the source chain id is 2 or 3, the two target
\* steps succeeded as well.
C7_StepsBySource ==
    ImportSucceeded =>
        /\ SourceStepsDone
        /\ ccLast.params.SourceChainID \in {2, 3}
               => TargetStepsDone

C7_Witness ==
    /\ ImportSucceeded
    /\ ccLast.params.SourceChainID = 3
    /\ TargetStepsDone

AppliedOn(p) == {c \in CcChainIds : ccApplied[<<c, p>>] > 0}

VoteCall == ccOps' # ccOps /\ ccLast'.op = "Vote"

TargetCalls ==
    {i \in 1..Len(ccLast.calls) :
        ccLast.calls[i].fn # "MakeDepositProposal"
        /\ \E j \in 1..(i - 1) : ccLast.calls[j].fn = "MakeDepositProposal"}

\* C10: in ImportExTransfer the target registration check, the target
\* handler resolution and MakeTransaction all use the ToChainID of the
\* proposal, whatever TargetChainID the caller supplied, and a proof is
\* applied on no other chain.
C10_TargetFromProposal ==
    /\ ccLast.op = "ImportExTransfer" =>
           \A i \in TargetCalls :
               ccLast.calls[i].chain = ccLast.params.Proof.ToChainID
    /\ \A p \in Proofs : AppliedOn(p) \subseteq {p.ToChainID}

C10_Witness ==
    /\ ImportSucceeded
    /\ ccLast.params.TargetChainID # ccLast.params.Proof.ToChainID
    /\ Cardinality(TargetCalls) = 3
    /\ ccApplied[<<ccLast.params.Proof.ToChainID, ccLast.params.Proof>>] = 1
    /\ ccApplied[<<ccLast.params.TargetChainID, ccLast.params.Proof>>] = 0

\* the ChainHandler methods the last call invoked
HandlerCalls ==
    {i \in 1..Len(ccLast.calls) :
        ccLast.calls[i].fn \in {"MakeDepositProposal", "MakeTransaction"}}

\* C16: ImportExTransfer invokes MakeDepositProposal or MakeTransaction only
\* when the source chain id is registered and supported; for an unregistered
\* or unsupported source it returns failure with an error.
C16_SourceChecked ==
    ccLast.op = "ImportExTransfer" =>
        LET src == ccLast.params.SourceChainID
            known == src \in ccRegistry /\ src \in SupportedIds
        IN  /\ HandlerCalls # {} => known
            /\ ~known => ~ccLast.ok /\ ccLast.err # "nil"

C16_Witness ==
    /\ ccLast.op = "ImportExTransfer"
    /\ ccLast.params.SourceChainID \in SupportedIds \ ccRegistry
    /\ ccLast.params.Proof.valid
    /\ ~ccLast.ok
    /\ HandlerCalls = {}

\* C17: Vote calls the BTC handler's Vote first; it goes on to the target
\* registration check, handler resolution and MakeTransaction exactly when
\* the handler reports the crossing; without a crossing it returns success
\* and with a handler error failure, in both cases applying nothing.
C17_VoteDelegates ==
    [][VoteCall =>
          /\ ccLast'.calls[1] = Call("Vote", BTC_CHAIN_ID)
          /\ ccLast'.crossed <=> Len(ccLast'.calls) > 1
          /\ ccLast'.crossed =>
                 ccLast'.calls[2]
                     = Call("GetSideChain", ccLast'.params.Proof.ToChainID)
          /\ (ccLast'.voteErr = "nil" /\ ~ccLast'.crossed)
                 => ccLast'.ok /\ ccApplied' = ccApplied
          /\ ccLast'.voteErr # "nil"
                 => ~ccLast'.ok /\ ~ccLast'.crossed /\ ccApplied' = ccApplied
          /\ ccLast'.ok /\ ccLast'.crossed =>
                 ccLast'.calls[Len(ccLast'.calls)]
                     = Call("MakeTransaction", ccLast'.params.Proof.ToChainID)]_vars

C17_Witness ==
    /\ ccLast.op = "Vote" /\ ccLast.crossed /\ ccLast.ok
    /\ ccLast.calls[Len(ccLast.calls)]
           = Call("MakeTransaction", ccLast.params.Proof.ToChainID)
    /\ ccApplied[<<ccLast.params.Proof.ToChainID, ccLast.params.Proof>>] = 1

\* C23: MakeTransaction is called, by ImportExTransfer and by Vote, only
\* after the registry lookup of the proposal's ToChainID was made in the
\* same call, succeeded and returned the record of that chain; when that
\* lookup fails or finds no such record the call fails and MakeTransaction
\* is not called.
C23_TargetLookedUp ==
    LET t == ccLast.params.Proof.ToChainID
        made == {i \in 1..Len(ccLast.calls) :
                    ccLast.calls[i].fn = "MakeTransaction"}
    IN  /\ \A i \in made :
               /\ ccLast.calls[i].chain = t
               /\ \E j \in 1..(i - 1) : ccLast.calls[j] = Call("GetSideChain", t)
               /\ ccLast.lookup = "found"
               /\ t \in ccRegistry
        /\ ccLast.lookup \in {"error", "absent"} => ~ccLast.ok /\ made = {}

\* Vote made the target transaction after a lookup that found the chain
C23_Witness ==
    /\ ccLast.op = "Vote" /\ ccLast.ok /\ ccLast.lookup = "found"
    /\ CcCalled("MakeTransaction", ccLast.params.Proof.ToChainID)

\* C24: for a registered and supported source chain id other than 2 and 3,
\* ImportExTransfer makes no call after MakeDepositProposal - no lookup of the
\* target chain, no target handler, no MakeTransaction - and returns success
\* exactly when MakeDepositProposal was called and returned no error.
C24_DepositOnly ==
    LET src == ccLast.params.SourceChainID IN
    (/\ ccLast.op = "ImportExTransfer"
     /\ src \in ccRegistry /\ src \in SupportedIds /\ src \notin {2, 3})
        => /\ TargetCalls = {}
           /\ ccLast.lookup = "none"
           /\ \A i \in 1..Len(ccLast.calls) :
                  /\ ccLast.calls[i].chain = src
                  /\ ccLast.calls[i].fn # "MakeTransaction"
           /\ ccLast.ok <=> /\ CcCalled("MakeDepositProposal", src)
                            /\ MakeDepositProposal(ccLast.params).err = "nil"

\* a call from chain 1 succeeded after MakeDepositProposal alone, with a
\* proposal for another chain that is registered and supported
C24_Witness ==
    /\ ImportSucceeded
    /\ ccLast.params.SourceChainID = BTC_CHAIN_ID
    /\ ccLast.calls[Len(ccLast.calls)] = Call("MakeDepositProposal", BTC_CHAIN_ID)
    /\ ccLast.params.Proof.ToChainID \in (ccRegistry \cap SupportedIds) \ {BTC_CHAIN_ID}
    /\ \A k \in DOMAIN ccApplied : ccApplied[k] = 0

====
